---- MODULE Spec2Model ----
(***************************************************************************)
(* Ticket lifecycle and escalation engine of the support controller        *)
(* (backend/controllers/supportController.js) over its relational store.   *)
(* Every handler is one action; a handler is the sequence of its store     *)
(* statements, composed as operators on a store record.                    *)
(***************************************************************************)
EXTENDS Integers, Sequences, FiniteSets, TLC

\* ---------------------------------------------------------------- bounds
MaxTickets == 2
\* requests that write to the store (create, post, resolve/close) in one run
MaxRequests == 3

\* SQL NULL / a JavaScript undefined request field
NoValue == "NULL"

\* ------------------------------------------------------------ users table
Students == {"stu1", "stu2"}
SupportAgents == {"agt1", "agt2"}
SeniorSupport == {"sen1"}
Admins == {"adm1"}
UserIds == Students \cup SupportAgents \cup SeniorSupport \cup Admins

UserTypeOf(u) ==
    IF u \in Students THEN "student"
    ELSE IF u \in SupportAgents THEN "support_agent"
    ELSE IF u \in SeniorSupport THEN "senior_support"
    ELSE "admin"

\* the is_active flags the users table may hold
\* users.user_id: the users in the order of their identities
UserIdOrder == <<"stu1", "stu2", "agt1", "agt2", "sen1", "adm1">>

ActiveSets == {{}, {"agt2"}, {"agt1", "agt2"}}

UsersTable(active) ==
    [u \in UserIds |-> [user_type |-> UserTypeOf(u),
                        is_active |-> (u \notin SupportAgents) \/ (u \in active)]]

\* orders table: order_id -> restaurant_id ("ord2" names no row)
OrderIds == {"ord1"}
OrdersTable == [o \in OrderIds |-> [restaurant_id |-> "rst2"]]

\* ---------------------------------------------------------- request inputs
PriorityInputs == {NoValue, "low", "urgent"}
RestaurantInputs == {NoValue, "rst1"}
OrderInputs == {NoValue, "ord1", "ord2"}
\* is_internal_note: absent (<<>>) or <<flag>>
InternalNoteInputs == {<<>>, <<TRUE>>}
\* message_text: absent, empty, blank, or text within blanks
TextInputs == {NoValue, "", "  ", " h "}

\* aiService.generateResponse results
Verdicts ==
    {[message |-> "ai reply", confidence |-> "0.9", intent |-> "faq", needsHuman |-> FALSE],
     [message |-> "ai reply", confidence |-> "0.3", intent |-> "unknown", needsHuman |-> TRUE]}

\* the store statement that throws during a handler ("none": no failure)
FailPoints ==
    {"none", "insert_ticket", "insert_customer_message", "classifier",
     "insert_ai_message", "insert_ai_log", "select_agents", "update_assign",
     "insert_notice", "insert_escalation", "select_order", "insert_complaint",
     "insert_message", "update_status", "select_ticket"}

HandoffNotice == "A support agent has joined the conversation and will assist you shortly."

\* ------------------------------------------------------------------ state
VARIABLES
    users,                  \* users table (user_type, is_active)
    tickets,                \* support_tickets, index = ticket_id
    chat_messages,          \* chat_messages, index = message_id
    ai_bot_logs,            \* ai_bot_logs
    ticket_escalations,     \* ticket_escalations
    restaurant_complaints,  \* restaurant_complaints
    clock,                  \* CURRENT_TIMESTAMP
    classifier_calls,       \* number of aiService.generateResponse calls
    requests,               \* number of writing requests served
    last,                   \* the last request and its response
    workflows               \* the handlers in progress, one per connection

vars == <<users, tickets, chat_messages, ai_bot_logs, ticket_escalations,
          restaurant_complaints, clock, classifier_calls, requests, last,
          workflows>>

\* the store as one record, threaded through a handler's statements
Store ==
    [tickets |-> tickets, chat_messages |-> chat_messages, ai_bot_logs |-> ai_bot_logs,
     ticket_escalations |-> ticket_escalations,
     restaurant_complaints |-> restaurant_complaints, clock |-> clock,
     classifier_calls |-> classifier_calls]

\* JavaScript truthiness of a string-valued request field
Truthy(v) == v \notin {NoValue, ""}

\* a || b
OrElse(a, b) == IF Truthy(a) THEN a ELSE b

\* mutant of Trim: nothing is trimmed
TrimNothing(s) == s

\* String.prototype.trim on the message texts
Trim(s) ==
    CASE s = "" -> ""
      [] s = "  " -> ""
      [] s = " h " -> "h"

\* CURRENT_TIMESTAMP after a statement: every statement is stamped later than
\* the one before it (creation time is a total order)
Tick(S) == S.clock + 1

\* ------------------------------------------------------- store statements
\* INSERT INTO support_tickets: status and assigned_to take the column defaults
InsertTicket(S, userId, order_id, restaurant_id, ticket_type, subject, description, priority) ==
    [S EXCEPT
        !.tickets = Append(@,
            [ticket_id |-> Len(@) + 1, user_id |-> userId,
             order_id |-> OrElse(order_id, NoValue),
             restaurant_id |-> OrElse(restaurant_id, NoValue),
             ticket_type |-> ticket_type, subject |-> subject,
             description |-> description,
             priority |-> OrElse(priority, "medium"),
             status |-> "open", assigned_to |-> NoValue,
             created_at |-> S.clock, updated_at |-> S.clock]),
        !.clock = Tick(S)]

\* INSERT INTO chat_messages
InsertMessage(S, ticketId, senderId, senderType, text, internal, aiGenerated, confidence) ==
    [S EXCEPT
        !.chat_messages = Append(@,
            [message_id |-> Len(@) + 1, ticket_id |-> ticketId,
             sender_id |-> senderId, sender_type |-> senderType,
             message_text |-> text, is_internal_note |-> internal,
             is_ai_generated |-> aiGenerated, ai_confidence_score |-> confidence,
             created_at |-> S.clock]),
        !.clock = Tick(S)]

\* INSERT INTO ai_bot_logs
InsertAiLog(S, ticketId, query, aiResponse) ==
    [S EXCEPT
        !.ai_bot_logs = Append(@,
            [ticket_id |-> ticketId, user_query |-> query,
             ai_response |-> aiResponse.message,
             intent_detected |-> aiResponse.intent,
             confidence_score |-> aiResponse.confidence,
             escalated_to_human |-> aiResponse.needsHuman])]

\* aiService.generateResponse: one more call of the classifier
CallClassifier(S) == [S EXCEPT !.classifier_calls = @ + 1]

\* ------------------------------------------------------------- escalation
\* COUNT(st.ticket_id) of the LEFT JOIN: the agent's tickets in assigned/in_progress
ActiveTickets(S, u) ==
    Cardinality({i \in DOMAIN S.tickets :
        /\ S.tickets[i].assigned_to = u
        /\ S.tickets[i].status \in {"assigned", "in_progress"}})

\* mutant of AgentRows: is_active is not tested
AgentRowsInactiveToo(usrs) ==
    {u \in DOMAIN usrs : usrs[u].user_type = "support_agent"}

\* WHERE u.user_type = 'support_agent' AND u.is_active = TRUE
AgentRows(usrs) ==
    {u \in DOMAIN usrs : usrs[u].user_type = "support_agent" /\ usrs[u].is_active}

\* mutant of FirstAgentRows: the ORDER BY is dropped, any agent row comes first
AnyAgentRow(S, usrs) == AgentRows(usrs)

\* ORDER BY active_tickets ASC LIMIT 1: with no second sort key, any row of
\* minimal count may come first
FirstAgentRows(S, usrs) ==
    {a \in AgentRows(usrs) :
        \A b \in AgentRows(usrs) : ActiveTickets(S, a) <= ActiveTickets(S, b)}

\* mutant of UpdateAssign: the WHERE clause is dropped
UpdateAssignEveryTicket(S, ticketId, agentId) ==
    [S EXCEPT
        !.tickets = [i \in DOMAIN @ |->
            [@[i] EXCEPT !.assigned_to = agentId, !.status = "assigned",
                         !.updated_at = S.clock]],
        !.clock = Tick(S)]

\* mutant of UpdateAssign: the status is not set
UpdateAssignKeepStatus(S, ticketId, agentId) ==
    [S EXCEPT
        !.tickets = [i \in DOMAIN @ |->
            IF @[i].ticket_id = ticketId
            THEN [@[i] EXCEPT !.assigned_to = agentId, !.updated_at = S.clock]
            ELSE @[i]],
        !.clock = Tick(S)]

\* UPDATE support_tickets SET assigned_to = ?, status = 'assigned', updated_at = now
UpdateAssign(S, ticketId, agentId) ==
    [S EXCEPT
        !.tickets = [i \in DOMAIN @ |->
            IF @[i].ticket_id = ticketId
            THEN [@[i] EXCEPT !.assigned_to = agentId, !.status = "assigned",
                              !.updated_at = S.clock]
            ELSE @[i]],
        !.clock = Tick(S)]

\* mutant of InsertEscalation: the record does not name the agent
InsertEscalationToNobody(S, ticketId, agentId, reason) ==
    [S EXCEPT
        !.ticket_escalations = Append(@,
            [ticket_id |-> ticketId, escalated_from |-> NoValue,
             escalated_to |-> NoValue, escalation_reason |-> reason,
             escalation_level |-> "agent"])]

\* INSERT INTO ticket_escalations
InsertEscalation(S, ticketId, agentId, reason) ==
    [S EXCEPT
        !.ticket_escalations = Append(@,
            [ticket_id |-> ticketId, escalated_from |-> NoValue,
             escalated_to |-> agentId, escalation_reason |-> reason,
             escalation_level |-> "agent"])]

\* mutant of HandOff: the system notice is not posted
HandOffNoNotice(S, ticketId, agentId, reason, fail) ==
    IF fail = "update_assign" THEN S
    ELSE InsertEscalation(UpdateAssign(S, ticketId, agentId), ticketId, agentId, reason)

\* the hand-off to agentId; a throwing statement ends it (the catch logs only)
HandOff(S, ticketId, agentId, reason, fail) ==
    IF fail = "update_assign" THEN S
    ELSE LET S1 == UpdateAssign(S, ticketId, agentId) IN
    IF fail = "insert_notice" THEN S1
    ELSE LET S2 == InsertMessage(S1, ticketId, NoValue, "ai_bot", HandoffNotice,
                                 FALSE, TRUE, NoValue) IN
    IF fail = "insert_escalation" THEN S2
    ELSE InsertEscalation(S2, ticketId, agentId, reason)

\* escalateToHuman: the stores it may leave (one per agent row that may come first)
escalateToHuman(S, usrs, ticketId, reason, fail) ==
    IF fail = "select_agents" THEN {S}
    ELSE IF FirstAgentRows(S, usrs) = {} THEN {S}
    ELSE {HandOff(S, ticketId, a, reason, fail) : a \in FirstAgentRows(S, usrs)}

\* ----------------------------------------------------------- createTicket
\* the complaint projection of createTicket (lines 54-87): never throws
\* SELECT restaurant_id FROM orders WHERE order_id = ? LIMIT 1
SelectOrder(order_id) ==
    IF order_id \in DOMAIN OrdersTable THEN <<OrdersTable[order_id]>> ELSE <<>>

\* mutant of EffectiveRestaurantId: the order is not looked up
ExplicitRestaurantOnly(restaurant_id, order_id, fail) == restaurant_id

\* mutant of EffectiveRestaurantId: a failed lookup falls back to the order id
OrderIdOnFailedLookup(restaurant_id, order_id, fail) ==
    IF ~Truthy(restaurant_id) /\ Truthy(order_id)
    THEN IF fail = "select_order" THEN order_id
         ELSE IF Len(SelectOrder(order_id)) > 0
              THEN SelectOrder(order_id)[1].restaurant_id
              ELSE restaurant_id
    ELSE restaurant_id

EffectiveRestaurantId(restaurant_id, order_id, fail) ==
    IF ~Truthy(restaurant_id) /\ Truthy(order_id)
    THEN IF fail = "select_order" THEN restaurant_id
         ELSE IF Len(SelectOrder(order_id)) > 0
              THEN SelectOrder(order_id)[1].restaurant_id
              ELSE restaurant_id
    ELSE restaurant_id

\* INSERT INTO restaurant_complaints
InsertComplaint(S, ticketId, restaurantId, ticket_type, summary) ==
    [S EXCEPT
        !.restaurant_complaints = Append(@,
            [ticket_id |-> ticketId, restaurant_id |-> restaurantId,
             complaint_type |-> ticket_type, complaint_summary |-> summary])]

RecordComplaint(S, ticketId, rq, fail) ==
    LET effectiveRestaurantId ==
            EffectiveRestaurantId(rq.restaurant_id, rq.order_id, fail)
    IN  IF Truthy(effectiveRestaurantId) /\ fail # "insert_complaint"
        THEN InsertComplaint(S, ticketId, effectiveRestaurantId, rq.ticket_type,
                             OrElse(rq.subject, OrElse(rq.description, NoValue)))
        ELSE S

\* mutant of NeedsEscalation: the priority is not looked at
NeedsEscalationVerdictOnly(aiResponse, priority) == aiResponse.needsHuman

\* line 50: the auto-escalation trigger
NeedsEscalation(aiResponse, priority) ==
    aiResponse.needsHuman \/ priority = "urgent"

\* what a handler leaves: the store and the response
Outcome(S, code, ticketId, escalated, status, messageId) ==
    [store |-> S, code |-> code, ticket_id |-> ticketId, escalated |-> escalated,
     status |-> status, message_id |-> messageId]

\* the catch of a handler: 500, the statements before the throw stay
Failed(S) == Outcome(S, 500, NoValue, NoValue, NoValue, NoValue)

\* createTicket: the outcomes for request body rq of user userId, when the
\* classifier answers aiResponse and statement `fail` throws
createTicket(S, usrs, userId, rq, aiResponse, fail) ==
    IF ~Truthy(rq.ticket_type) \/ ~Truthy(rq.subject) \/ ~Truthy(rq.description)
    THEN {Outcome(S, 400, NoValue, NoValue, NoValue, NoValue)}
    ELSE IF fail = "insert_ticket" THEN {Failed(S)}
    ELSE
    LET S1 == InsertTicket(S, userId, rq.order_id, rq.restaurant_id, rq.ticket_type,
                           rq.subject, rq.description, rq.priority)
        ticketId == Len(S1.tickets)
    IN
    IF fail = "insert_customer_message" THEN {Failed(S1)}
    ELSE
    LET S2 == InsertMessage(S1, ticketId, userId, "customer", rq.description,
                            FALSE, FALSE, NoValue)
    IN
    IF fail = "classifier" THEN {Failed(CallClassifier(S2))}
    ELSE IF fail = "insert_ai_message" THEN {Failed(CallClassifier(S2))}
    ELSE
    LET S3 == InsertMessage(CallClassifier(S2), ticketId, NoValue, "ai_bot",
                            aiResponse.message, FALSE, TRUE, aiResponse.confidence)
    IN
    IF fail = "insert_ai_log" THEN {Failed(S3)}
    ELSE
    LET S4 == InsertAiLog(S3, ticketId, rq.description, aiResponse)
        escalated ==
            IF NeedsEscalation(aiResponse, rq.priority)
            THEN escalateToHuman(S4, usrs, ticketId,
                     IF aiResponse.needsHuman THEN "Auto-escalation: AI confidence low"
                     ELSE "Auto-escalation: Urgent priority", fail)
            ELSE {S4}
    IN
    {Outcome(RecordComplaint(S5, ticketId, rq, fail), 201, ticketId,
             aiResponse.needsHuman, "open", NoValue) : S5 \in escalated}

\* ------------------------------------------------------------ sendMessage
\* senderTypeMap[userType] || 'customer'
SenderType(userType) ==
    CASE userType = "student" -> "customer"
      [] userType = "support_agent" -> "support_agent"
      [] userType = "senior_support" -> "senior_support"
      [] userType = "admin" -> "senior_support"
      [] OTHER -> "customer"

\* mutant of UpdateOnReply: the CASE does not test status = 'open'
UpdateOnReplyAnyStatus(S, ticketId, userType) ==
    [S EXCEPT
        !.tickets = [i \in DOMAIN @ |->
            IF @[i].ticket_id = ticketId
            THEN [@[i] EXCEPT
                    !.updated_at = S.clock,
                    !.status = IF userType \in {"support_agent", "senior_support"}
                               THEN "in_progress" ELSE @]
            ELSE @[i]],
        !.clock = Tick(S)]

\* UPDATE support_tickets SET updated_at = now, status = CASE ... END
UpdateOnReply(S, ticketId, userType) ==
    [S EXCEPT
        !.tickets = [i \in DOMAIN @ |->
            IF @[i].ticket_id = ticketId
            THEN [@[i] EXCEPT
                    !.updated_at = S.clock,
                    !.status = IF @ = "open" /\ userType \in {"support_agent", "senior_support"}
                               THEN "in_progress" ELSE @]
            ELSE @[i]],
        !.clock = Tick(S)]

\* mutant of SelectTicket: the row read never shows an agent
SelectTicketWithoutAgent(S, ticketId) ==
    SelectSeq([i \in DOMAIN S.tickets |-> [S.tickets[i] EXCEPT !.assigned_to = NoValue]],
              LAMBDA t : t.ticket_id = ticketId)

\* SELECT assigned_to, ticket_type FROM support_tickets WHERE ticket_id = ?
SelectTicket(S, ticketId) ==
    SelectSeq(S.tickets, LAMBDA t : t.ticket_id = ticketId)

\* lines 213-239: the AI reply to a customer on a ticket without agent
AiFollowUp(S, usrs, ticketId, message_text, aiResponse, fail) ==
    IF fail = "select_ticket" THEN {<<FALSE, S>>}
    ELSE
    LET ticket == SelectTicket(S, ticketId) IN
    IF ~(Len(ticket) > 0 /\ ~Truthy(ticket[1].assigned_to)) THEN {<<TRUE, S>>}
    ELSE IF fail \in {"classifier", "insert_ai_message"} THEN {<<FALSE, CallClassifier(S)>>}
    ELSE
    LET S1 == InsertMessage(CallClassifier(S), ticketId, NoValue, "ai_bot",
                            aiResponse.message, FALSE, TRUE, aiResponse.confidence)
    IN
    IF fail = "insert_ai_log" THEN {<<FALSE, S1>>}
    ELSE
    LET S2 == InsertAiLog(S1, ticketId, message_text, aiResponse) IN
    IF aiResponse.needsHuman
    THEN {<<TRUE, S3>> : S3 \in escalateToHuman(S2, usrs, ticketId,
                                                "AI escalation recommended", fail)}
    ELSE {<<TRUE, S2>>}

\* sendMessage: the outcomes for user userId posting message_text on ticket_id
sendMessage(S, usrs, ticket_id, userId, message_text, is_internal_note, aiResponse, fail) ==
    LET userType == usrs[userId].user_type IN
    IF ~Truthy(message_text) \/ ~Truthy(Trim(message_text))
    THEN {Outcome(S, 400, NoValue, NoValue, NoValue, NoValue)}
    ELSE IF fail = "insert_message" THEN {Failed(S)}
    ELSE
    LET S1 == InsertMessage(S, ticket_id, userId, SenderType(userType), message_text,
                            IF is_internal_note = <<>> THEN FALSE ELSE is_internal_note[1],
                            FALSE, NoValue)
        insertId == Len(S1.chat_messages)
    IN
    IF fail = "update_status" THEN {Failed(S1)}
    ELSE
    LET S2 == UpdateOnReply(S1, ticket_id, userType) IN
    IF userType = "student"
    THEN {IF r[1] THEN Outcome(r[2], 201, NoValue, NoValue, NoValue, insertId)
                  ELSE Failed(r[2]) :
            r \in AiFollowUp(S2, usrs, ticket_id, message_text, aiResponse, fail)}
    ELSE {Outcome(S2, 201, NoValue, NoValue, NoValue, insertId)}

\* ------------------------------------------------------ getTicketMessages
\* ORDER BY created_at ASC of a set of row indices
RECURSIVE OrderByCreatedAt(_, _)
OrderByCreatedAt(rows, idx) ==
    IF idx = {} THEN <<>>
    ELSE LET first == CHOOSE i \in idx :
                        \A j \in idx : rows[i].created_at <= rows[j].created_at
         IN  <<rows[first]>> \o OrderByCreatedAt(rows, idx \ {first})

\* mutant of VisibleMessages: the internal-note condition is dropped
AllMessagesOfTicket(S, ticket_id, userType) ==
    {i \in DOMAIN S.chat_messages : S.chat_messages[i].ticket_id = ticket_id}

\* WHERE cm.ticket_id = ? AND (cm.is_internal_note = FALSE OR ? IN (...))
VisibleMessages(S, ticket_id, userType) ==
    {i \in DOMAIN S.chat_messages :
        /\ S.chat_messages[i].ticket_id = ticket_id
        /\ \/ S.chat_messages[i].is_internal_note = FALSE
           \/ userType \in {"support_agent", "senior_support", "admin"}}

\* mutant of OwnTicketRows: the user_id condition is dropped
AnyTicketRows(S, ticket_id, userId) ==
    {i \in DOMAIN S.tickets : S.tickets[i].ticket_id = ticket_id}

\* SELECT ticket_id FROM support_tickets WHERE ticket_id = ? AND user_id = ?
OwnTicketRows(S, ticket_id, userId) ==
    {i \in DOMAIN S.tickets :
        S.tickets[i].ticket_id = ticket_id /\ S.tickets[i].user_id = userId}

\* getTicketMessages: <<status code, messages>>
getTicketMessages(S, usrs, ticket_id, userId) ==
    LET userType == usrs[userId].user_type IN
    IF userType = "student" /\ OwnTicketRows(S, ticket_id, userId) = {}
    THEN <<403, <<>> >>
    ELSE <<200, OrderByCreatedAt(S.chat_messages, VisibleMessages(S, ticket_id, userType))>>

\* --------------------------------------------------------- getUserTickets
\* ORDER BY created_at DESC of a set of row indices
RECURSIVE OrderByCreatedAtDesc(_, _)
OrderByCreatedAtDesc(rows, idx) ==
    IF idx = {} THEN <<>>
    ELSE LET first == CHOOSE i \in idx :
                        \A j \in idx : rows[i].created_at >= rows[j].created_at
         IN  <<rows[first]>> \o OrderByCreatedAtDesc(rows, idx \ {first})

\* st.*, o.order_id, agent: the row of a ticket joined with its order and its
\* agent (LEFT JOINs: NULL where there is no such row)
JoinedTicketRow(t, usrs) ==
    [t EXCEPT !.order_id = IF Len(SelectOrder(@)) > 0 THEN @ ELSE NoValue]
    @@ [assigned_agent |-> IF t.assigned_to \in DOMAIN usrs
                           THEN t.assigned_to ELSE NoValue]

\* mutant of getUserTickets: the listing leaves a trace in the store
getUserTicketsTouching(S, usrs, userId) ==
    [store |-> [S EXCEPT !.clock = Tick(S)], code |-> 200,
     tickets |-> OrderByCreatedAtDesc(
         [i \in DOMAIN S.tickets |-> JoinedTicketRow(S.tickets[i], usrs)],
         {i \in DOMAIN S.tickets : S.tickets[i].user_id = userId})]

\* getUserTickets: the tickets WHERE st.user_id = ?, newest first
getUserTickets(S, usrs, userId) ==
    [store |-> S, code |-> 200,
     tickets |-> OrderByCreatedAtDesc(
         [i \in DOMAIN S.tickets |-> JoinedTicketRow(S.tickets[i], usrs)],
         {i \in DOMAIN S.tickets : S.tickets[i].user_id = userId})]

\* ---------------------------------------------------------- getAllTickets
\* the place of a priority in the order of the priority column
PriorityRank(priority) ==
    CASE priority = "low" -> 1
      [] priority = "medium" -> 2
      [] priority = "high" -> 3
      [] priority = "urgent" -> 4
      [] OTHER -> 0

\* ORDER BY st.priority DESC, st.created_at ASC of a set of row indices
RECURSIVE OrderByPriorityThenCreatedAt(_, _)
OrderByPriorityThenCreatedAt(rows, idx) ==
    IF idx = {} THEN <<>>
    ELSE LET first == CHOOSE i \in idx : \A j \in idx :
                 \/ PriorityRank(rows[i].priority) > PriorityRank(rows[j].priority)
                 \/ /\ PriorityRank(rows[i].priority) = PriorityRank(rows[j].priority)
                    /\ rows[i].created_at <= rows[j].created_at
         IN  <<rows[first]>> \o OrderByPriorityThenCreatedAt(rows, idx \ {first})

\* mutant of AssignedToCallerOrNobody: the condition is not added to the query
AssignedToAnybody(t, agentId, userType) == TRUE

\* if (userType === 'support_agent') AND (assigned_to IS NULL OR assigned_to = ?)
AssignedToCallerOrNobody(t, agentId, userType) ==
    userType = "support_agent" => (t.assigned_to = NoValue \/ t.assigned_to = agentId)

\* getAllTickets: the tickets not resolved or closed that pass the caller's
\* restriction and the status and priority of the query string, if given
getAllTickets(S, usrs, agentId, status, priority) ==
    [code |-> 200,
     tickets |-> OrderByPriorityThenCreatedAt(
         [i \in DOMAIN S.tickets |->
             S.tickets[i] @@ [assigned_agent |->
                 IF S.tickets[i].assigned_to \in DOMAIN usrs
                 THEN S.tickets[i].assigned_to ELSE NoValue]],
         {i \in DOMAIN S.tickets :
             /\ S.tickets[i].user_id \in DOMAIN usrs
             /\ S.tickets[i].status \notin {"resolved", "closed"}
             /\ AssignedToCallerOrNobody(S.tickets[i], agentId, usrs[agentId].user_type)
             /\ Truthy(status) => S.tickets[i].status = status
             /\ Truthy(priority) => S.tickets[i].priority = priority})]

\* ------------------------------------------------------------ debugTicket
\* debugTicket: the ticket, all its messages in creation order and its
\* complaint rows; 404 when there is no such ticket. The caller is not looked at.
debugTicket(S, usrs, ticket_id) ==
    IF Len(SelectTicket(S, ticket_id)) = 0
    THEN [code |-> 404, ticket |-> NoValue, messages |-> <<>>,
          restaurant_complaints |-> <<>>]
    ELSE [code |-> 200,
          ticket |-> SelectTicket(S, ticket_id)[1],
          messages |-> OrderByCreatedAt(S.chat_messages,
              {i \in DOMAIN S.chat_messages : S.chat_messages[i].ticket_id = ticket_id}),
          restaurant_complaints |-> SelectSeq(S.restaurant_complaints,
              LAMBDA c : c.ticket_id = ticket_id)]

\* ------------------------------------------------- resolve / close a ticket
\* the status changes made by the support tooling outside this controller
NextStatus(status) ==
    IF status \in {"open", "in_progress", "assigned"} THEN {"resolved"}
    ELSE IF status = "resolved" THEN {"closed"}
    ELSE {}

SetStatus(S, ticketId, status) ==
    [S EXCEPT
        !.tickets = [i \in DOMAIN @ |->
            IF @[i].ticket_id = ticketId
            THEN [@[i] EXCEPT !.status = status, !.updated_at = S.clock]
            ELSE @[i]],
        !.clock = Tick(S)]

\* ---------------------------------------------------------------- actions
\* the request bodies of createTicket that are tried: complete bodies over
\* the priorities and the restaurant/order references, and bodies with one
\* required field missing or empty
PlainBody ==
    [order_id |-> NoValue, restaurant_id |-> NoValue, ticket_type |-> "payment",
     subject |-> "Double charge", description |-> "I was charged twice",
     priority |-> NoValue]

ValidBodies ==
    {[PlainBody EXCEPT !.priority = p] : p \in PriorityInputs}
    \cup {[PlainBody EXCEPT !.restaurant_id = "rst1", !.order_id = "ord1"]}
    \cup {[PlainBody EXCEPT !.order_id = o] : o \in OrderInputs}

InvalidBodies ==
    {[PlainBody EXCEPT !.ticket_type = NoValue], [PlainBody EXCEPT !.subject = ""],
     [PlainBody EXCEPT !.description = NoValue]}

CreateRequests ==
    {[user_id |-> "stu1", body |-> b] : b \in ValidBodies \cup InvalidBodies}
    \cup {[user_id |-> "stu2", body |-> PlainBody]}

\* the request bodies of sendMessage that are tried: the text every user may
\* post, the internal-note flag set by a customer and by an agent, and the
\* texts without content
PostRequests ==
    [user_id : UserIds \ {"agt2"}, message_text : {" h "}, is_internal_note : {<<>>}]
    \cup [user_id : {"stu1", "agt1"}, message_text : {" h "}, is_internal_note : {<<TRUE>>}]
    \cup [user_id : {"stu1"}, message_text : TextInputs \ {" h "},
          is_internal_note : {<<>>}]

\* the connections of the pool: the handlers that may run at the same time
Connections == {1, 2}

\* a connection that runs no handler
Idle ==
    [op |-> "idle", pc |-> "idle", ticket_id |-> 0, user_id |-> NoValue,
     text |-> NoValue, aiResponse |-> CHOOSE v \in Verdicts : ~v.needsHuman,
     agent_id |-> NoValue]

Request(op, userId, ticketId, rq, aiResponse, code, body) ==
    [op |-> op, user_id |-> userId, ticket_id |-> ticketId, rq |-> rq,
     aiResponse |-> aiResponse, code |-> code, body |-> body]

Commit(S) ==
    /\ tickets' = S.tickets
    /\ chat_messages' = S.chat_messages
    /\ ai_bot_logs' = S.ai_bot_logs
    /\ ticket_escalations' = S.ticket_escalations
    /\ restaurant_complaints' = S.restaurant_complaints
    /\ clock' = S.clock
    /\ classifier_calls' = S.classifier_calls

Init ==
    /\ users \in {UsersTable(a) : a \in ActiveSets}
    /\ tickets = <<>>
    /\ chat_messages = <<>>
    /\ ai_bot_logs = <<>>
    /\ ticket_escalations = <<>>
    /\ restaurant_complaints = <<>>
    /\ clock = 1
    /\ classifier_calls = 0
    /\ requests = 0
    /\ last = Request("none", NoValue, NoValue, NoValue, NoValue, NoValue, NoValue)
    /\ workflows = [p \in Connections |-> Idle]

\* POST /tickets (requireRole student)
CreateTicket ==
    /\ Len(tickets) < MaxTickets
    /\ requests < MaxRequests
    /\ \E cr \in CreateRequests, aiResponse \in Verdicts :
       \E out \in createTicket(Store, users, cr.user_id, cr.body, aiResponse, "none") :
          /\ Commit(out.store)
          /\ requests' = IF out.code = 400 THEN requests ELSE requests + 1
          /\ last' = Request("createTicket", cr.user_id, out.ticket_id, cr.body,
                        IF out.store.classifier_calls > classifier_calls
                        THEN aiResponse ELSE NoValue,
                        out.code,
                        [ticket_id |-> out.ticket_id, escalated |-> out.escalated,
                         status |-> out.status])
    /\ UNCHANGED <<users, workflows>>

\* POST /tickets/:ticket_id/messages (any authenticated user)
SendMessage ==
    /\ requests < MaxRequests
    /\ \E ticket_id \in DOMAIN tickets, pr \in PostRequests, aiResponse \in Verdicts :
       \E out \in sendMessage(Store, users, ticket_id, pr.user_id, pr.message_text,
                               pr.is_internal_note, aiResponse, "none") :
          /\ Commit(out.store)
          /\ requests' = IF out.code = 400 THEN requests ELSE requests + 1
          /\ last' = Request("sendMessage", pr.user_id, ticket_id,
                        [message_text |-> pr.message_text,
                         is_internal_note |-> pr.is_internal_note],
                        IF out.store.classifier_calls > classifier_calls
                        THEN aiResponse ELSE NoValue,
                        out.code, [message_id |-> out.message_id])
    /\ UNCHANGED <<users, workflows>>

\* GET /tickets/:ticket_id/messages (any authenticated user)
GetTicketMessages ==
    /\ \E ticket_id \in DOMAIN tickets, userId \in UserIds :
          LET r == getTicketMessages(Store, users, ticket_id, userId) IN
          last' = Request("getTicketMessages", userId, ticket_id, NoValue, NoValue,
                          r[1], [messages |-> r[2]])
    /\ UNCHANGED <<users, workflows, tickets, chat_messages, ai_bot_logs, ticket_escalations,
                   restaurant_complaints, clock, classifier_calls, requests>>

\* a ticket is resolved, or a resolved ticket closed
ResolveTicket ==
    /\ requests < MaxRequests
    /\ \E ticket_id \in DOMAIN tickets :
       \E status \in NextStatus(tickets[ticket_id].status) :
          /\ Commit(SetStatus(Store, ticket_id, status))
          /\ last' = Request("resolveTicket", NoValue, ticket_id, NoValue, NoValue,
                             200, [status |-> status])
    /\ requests' = requests + 1
    /\ UNCHANGED <<users, workflows>>

Next ==
    \/ CreateTicket
    \/ SendMessage
    \/ GetTicketMessages
    \/ ResolveTicket

Spec == Init /\ [][Next]_vars

\* ------------------------------------------------- requests with a failure
\* the statements of createTicket and of sendMessage that may throw
CreateFailPoints ==
    {"none", "insert_ticket", "insert_customer_message", "classifier",
     "insert_ai_message", "insert_ai_log", "select_agents", "update_assign",
     "insert_notice", "insert_escalation", "select_order", "insert_complaint"}

SendFailPoints ==
    {"none", "insert_message", "update_status", "select_ticket", "classifier",
     "insert_ai_message", "insert_ai_log", "select_agents", "update_assign",
     "insert_notice", "insert_escalation"}

\* the createTicket requests tried with a failing statement
FailingCreateBodies ==
    {[PlainBody EXCEPT !.priority = "urgent"],
     [PlainBody EXCEPT !.order_id = "ord1"],
     [PlainBody EXCEPT !.restaurant_id = "rst1", !.order_id = "ord1"]}

\* the sendMessage requests tried with a failing statement
FailingPosts ==
    [user_id : {"stu1"}, fail : SendFailPoints]
    \cup [user_id : {"agt1"}, fail : {"none", "insert_message", "update_status"}]

\* createTicket of the first ticket, one of its statements throwing
CreateTicketFailing ==
    /\ tickets = <<>>
    /\ requests < MaxRequests
    /\ \E rq \in FailingCreateBodies, aiResponse \in Verdicts, fail \in CreateFailPoints :
       \E out \in createTicket(Store, users, "stu1", rq, aiResponse, fail) :
          /\ Commit(out.store)
          /\ last' = Request("createTicket", "stu1", out.ticket_id, rq,
                        IF out.store.classifier_calls > classifier_calls
                        THEN aiResponse ELSE NoValue,
                        out.code,
                        [ticket_id |-> out.ticket_id, escalated |-> out.escalated,
                         status |-> out.status])
                     @@ [fail |-> fail]
    /\ requests' = requests + 1
    /\ UNCHANGED <<users, workflows>>

\* sendMessage, one of its statements throwing
SendMessageFailing ==
    /\ requests < MaxRequests
    /\ \E ticket_id \in DOMAIN tickets, pr \in FailingPosts, aiResponse \in Verdicts :
       \E out \in sendMessage(Store, users, ticket_id, pr.user_id, " h ", <<>>,
                               aiResponse, pr.fail) :
          /\ Commit(out.store)
          /\ last' = Request("sendMessage", pr.user_id, ticket_id,
                        [message_text |-> " h ", is_internal_note |-> <<>>],
                        IF out.store.classifier_calls > classifier_calls
                        THEN aiResponse ELSE NoValue,
                        out.code, [message_id |-> out.message_id])
                     @@ [fail |-> pr.fail]
    /\ requests' = requests + 1
    /\ UNCHANGED <<users, workflows>>

NextFail ==
    \/ CreateTicketFailing
    \/ SendMessageFailing

SpecFail == Init /\ [][NextFail]_vars

\* ------------------------------------------------ requests of any priority
\* req.body.priority: absent, each value the tickets may have, and another one
AnyPriorityInputs == {NoValue, "low", "medium", "high", "urgent", "bogus"}

\* createTicket with a priority of AnyPriorityInputs. The value is passed to
\* the INSERT as given (priority || 'medium'); a value the column does not
\* take is either stored or makes the INSERT throw.
CreateTicketAnyPriority ==
    /\ Len(tickets) < MaxTickets
    /\ requests < MaxRequests
    /\ \E priority \in AnyPriorityInputs, aiResponse \in Verdicts :
       LET rq == [PlainBody EXCEPT !.priority = priority] IN
       \E fail \in IF priority = "bogus" THEN {"none", "insert_ticket"} ELSE {"none"} :
       \E out \in createTicket(Store, users, "stu1", rq, aiResponse, fail) :
          /\ Commit(out.store)
          /\ last' = Request("createTicket", "stu1", out.ticket_id, rq,
                        IF out.store.classifier_calls > classifier_calls
                        THEN aiResponse ELSE NoValue,
                        out.code,
                        [ticket_id |-> out.ticket_id, escalated |-> out.escalated,
                         status |-> out.status])
    /\ requests' = requests + 1
    /\ UNCHANGED <<users, workflows>>

NextPriority == CreateTicketAnyPriority

SpecPriority == Init /\ [][NextPriority]_vars

\* ------------------------------------------------------- reads and writes
\* createTicket of a ticket without order, restaurant or priority
CreateTicketPlain ==
    /\ Len(tickets) < MaxTickets
    /\ requests < MaxRequests
    /\ \E userId \in Students, aiResponse \in Verdicts :
       \E out \in createTicket(Store, users, userId, PlainBody, aiResponse, "none") :
          /\ Commit(out.store)
          /\ last' = Request("createTicket", userId, out.ticket_id, PlainBody,
                        aiResponse, out.code,
                        [ticket_id |-> out.ticket_id, escalated |-> out.escalated,
                         status |-> out.status])
    /\ requests' = requests + 1
    /\ UNCHANGED <<users, workflows>>

\* GET /tickets/my-tickets (requireRole student)
GetUserTickets ==
    /\ \E userId \in Students :
          LET r == getUserTickets(Store, users, userId) IN
          /\ Commit(r.store)
          /\ last' = Request("getUserTickets", userId, NoValue, NoValue, NoValue,
                             r.code, [tickets |-> r.tickets])
    /\ UNCHANGED <<users, requests, workflows>>

NextReads ==
    \/ CreateTicketPlain
    \/ SendMessage
    \/ GetTicketMessages
    \/ GetUserTickets

SpecReads == Init /\ [][NextReads]_vars

\* ------------------------------------------------- the listing for agents
\* req.query of getAllTickets
StatusFilters == {NoValue, "open", "assigned", "resolved"}
PriorityFilters == {NoValue, "medium", "urgent"}

\* GET /tickets (requireRole support_agent, senior_support, admin)
GetAllTickets ==
    /\ \E agentId \in SupportAgents \cup SeniorSupport \cup Admins,
          status \in StatusFilters, priority \in PriorityFilters :
          LET r == getAllTickets(Store, users, agentId, status, priority) IN
          last' = Request("getAllTickets", agentId, NoValue,
                          [status |-> status, priority |-> priority], NoValue,
                          r.code, [tickets |-> r.tickets])
    /\ UNCHANGED <<users, workflows, tickets, chat_messages, ai_bot_logs, ticket_escalations,
                   restaurant_complaints, clock, classifier_calls, requests>>

NextAgentList ==
    \/ CreateTicketAnyPriority
    \/ ResolveTicket
    \/ GetAllTickets

SpecAgentList == Init /\ [][NextAgentList]_vars

\* --------------------------------------------------------- the debug route
\* the callers of the debug route tried
DebugCallers == {"stu1", "stu2", "agt1"}

\* GET /debug/ticket/:ticket_id (any authenticated user)
DebugTicket ==
    /\ \E ticket_id \in 1..MaxTickets, userId \in DebugCallers :
          LET r == debugTicket(Store, users, ticket_id) IN
          last' = Request("debugTicket", userId, ticket_id, NoValue, NoValue, r.code,
                          [ticket |-> r.ticket, messages |-> r.messages,
                           restaurant_complaints |-> r.restaurant_complaints])
    /\ UNCHANGED <<users, workflows, tickets, chat_messages, ai_bot_logs, ticket_escalations,
                   restaurant_complaints, clock, classifier_calls, requests>>

NextDebug ==
    \/ CreateTicketPlain
    \/ SendMessage
    \/ GetTicketMessages
    \/ DebugTicket

SpecDebug == Init /\ [][NextDebug]_vars

\* ------------------------------------------- handlers running concurrently
\* Every awaited statement of createTicket, sendMessage and escalateToHuman
\* is a step of its own; between two steps of one handler the other
\* connection may take steps. workflows[p].pc names the statement to run next.

\* the statement of connection p has run: the store is S, the handler is at w
StoreStep(p, S, w) ==
    /\ Commit(S)
    /\ workflows' = [workflows EXCEPT ![p] = w]
    /\ UNCHANGED <<users, last>>

\* connection p may take a new request (of two idle connections the first)
Free(p) ==
    /\ workflows[p] = Idle
    /\ \A q \in Connections : q < p => workflows[q] # Idle
    /\ requests < MaxRequests

At(p, op, pc) == workflows[p].op = op /\ workflows[p].pc = pc

\* createTicket, lines 13-22: the body is valid; INSERT INTO support_tickets
StartCreateTicket ==
    \E p \in Connections :
       /\ Free(p)
       /\ Len(tickets) < MaxTickets
       /\ LET S1 == InsertTicket(Store, "stu1", PlainBody.order_id,
                                 PlainBody.restaurant_id, PlainBody.ticket_type,
                                 PlainBody.subject, PlainBody.description,
                                 PlainBody.priority)
          IN  StoreStep(p, S1, [Idle EXCEPT !.op = "createTicket",
                                            !.pc = "insert_customer_message",
                                            !.ticket_id = Len(S1.tickets),
                                            !.user_id = "stu1",
                                            !.text = PlainBody.description])
       /\ requests' = requests + 1

\* createTicket, lines 27-31: INSERT of the customer's message
InsertCustomerMessage ==
    \E p \in Connections :
       /\ At(p, "createTicket", "insert_customer_message")
       /\ StoreStep(p, InsertMessage(Store, workflows[p].ticket_id, workflows[p].user_id,
                                     "customer", workflows[p].text, FALSE, FALSE, NoValue),
                    [workflows[p] EXCEPT !.pc = "classifier"])
       /\ UNCHANGED requests

\* sendMessage, lines 183-200: the text is valid; INSERT of the owner's message
StartSendMessage ==
    \E p \in Connections, ticket_id \in DOMAIN tickets :
       /\ Free(p)
       /\ StoreStep(p, InsertMessage(Store, ticket_id, tickets[ticket_id].user_id,
                                     SenderType("student"), " h ", FALSE, FALSE, NoValue),
                    [Idle EXCEPT !.op = "sendMessage", !.pc = "update_status",
                                 !.ticket_id = ticket_id,
                                 !.user_id = tickets[ticket_id].user_id,
                                 !.text = " h "])
       /\ requests' = requests + 1

\* sendMessage, lines 202-211: UPDATE of updated_at and status
UpdateStatus ==
    \E p \in Connections :
       /\ At(p, "sendMessage", "update_status")
       /\ StoreStep(p, UpdateOnReply(Store, workflows[p].ticket_id, "student"),
                    [workflows[p] EXCEPT !.pc = "select_ticket"])
       /\ UNCHANGED requests

\* sendMessage, lines 214-219: SELECT assigned_to; with an agent the handler responds
CheckAssigned ==
    \E p \in Connections :
       /\ At(p, "sendMessage", "select_ticket")
       /\ LET ticket == SelectTicket(Store, workflows[p].ticket_id) IN
          StoreStep(p, Store,
                    IF Len(ticket) > 0 /\ ~Truthy(ticket[1].assigned_to)
                    THEN [workflows[p] EXCEPT !.pc = "classifier"]
                    ELSE Idle)
       /\ UNCHANGED requests

\* lines 34 and 220: await aiService.generateResponse
Classify ==
    \E p \in Connections, aiResponse \in Verdicts :
       /\ workflows[p].pc = "classifier"
       /\ StoreStep(p, CallClassifier(Store),
                    [workflows[p] EXCEPT !.pc = "insert_ai_message",
                                         !.aiResponse = aiResponse])
       /\ UNCHANGED requests

\* lines 36-40 and 222-226: INSERT of the AI reply
InsertAiMessage ==
    \E p \in Connections :
       /\ workflows[p].pc = "insert_ai_message"
       /\ StoreStep(p, InsertMessage(Store, workflows[p].ticket_id, NoValue, "ai_bot",
                                     workflows[p].aiResponse.message, FALSE, TRUE,
                                     workflows[p].aiResponse.confidence),
                    [workflows[p] EXCEPT !.pc = "insert_ai_log"])
       /\ UNCHANGED requests

\* lines 43-52 and 228-237: INSERT INTO ai_bot_logs, then the escalation or
\* the response
WriteAiLog ==
    \E p \in Connections :
       /\ workflows[p].pc = "insert_ai_log"
       /\ StoreStep(p, InsertAiLog(Store, workflows[p].ticket_id, workflows[p].text,
                                   workflows[p].aiResponse),
                    IF \/ /\ workflows[p].op = "createTicket"
                          /\ NeedsEscalation(workflows[p].aiResponse, PlainBody.priority)
                       \/ /\ workflows[p].op = "sendMessage"
                          /\ workflows[p].aiResponse.needsHuman
                    THEN [workflows[p] EXCEPT !.pc = "select_agents"]
                    ELSE Idle)
       /\ UNCHANGED requests

\* escalateToHuman, lines 255-267: the agent query; without a row it returns
SelectAgents ==
    \E p \in Connections :
       /\ workflows[p].pc = "select_agents"
       /\ IF FirstAgentRows(Store, users) = {}
          THEN StoreStep(p, Store, Idle)
          ELSE \E a \in FirstAgentRows(Store, users) :
                  StoreStep(p, Store, [workflows[p] EXCEPT !.pc = "update_assign",
                                                           !.agent_id = a])
       /\ UNCHANGED requests

\* escalateToHuman, lines 269-274: UPDATE of assigned_to and status
AssignAgent ==
    \E p \in Connections :
       /\ workflows[p].pc = "update_assign"
       /\ StoreStep(p, UpdateAssign(Store, workflows[p].ticket_id, workflows[p].agent_id),
                    [workflows[p] EXCEPT !.pc = "insert_notice"])
       /\ UNCHANGED requests

\* escalateToHuman, lines 276-280: INSERT of the hand-off notice
InsertNotice ==
    \E p \in Connections :
       /\ workflows[p].pc = "insert_notice"
       /\ StoreStep(p, InsertMessage(Store, workflows[p].ticket_id, NoValue, "ai_bot",
                                     HandoffNotice, FALSE, TRUE, NoValue),
                    [workflows[p] EXCEPT !.pc = "insert_escalation"])
       /\ UNCHANGED requests

\* escalateToHuman, lines 282-286: INSERT INTO ticket_escalations; the
\* handler responds
WriteEscalation ==
    \E p \in Connections :
       /\ workflows[p].pc = "insert_escalation"
       /\ StoreStep(p, InsertEscalation(Store, workflows[p].ticket_id,
                        workflows[p].agent_id,
                        IF workflows[p].op = "createTicket"
                        THEN "Auto-escalation: AI confidence low"
                        ELSE "AI escalation recommended"),
                    Idle)
       /\ UNCHANGED requests

NextConcurrent ==
    \/ StartCreateTicket
    \/ InsertCustomerMessage
    \/ StartSendMessage
    \/ UpdateStatus
    \/ CheckAssigned
    \/ Classify
    \/ InsertAiMessage
    \/ WriteAiLog
    \/ SelectAgents
    \/ AssignAgent
    \/ InsertNotice
    \/ WriteEscalation

SpecConcurrent == Init /\ [][NextConcurrent]_vars

\* ================================================================== claims
\* the rows of a ticket, counted from the tables themselves
TicketRows(t) == {i \in DOMAIN tickets : tickets[i].ticket_id = t}
MessagesOf(t) == {i \in DOMAIN chat_messages : chat_messages[i].ticket_id = t}
MessagesFrom(t, senderType) ==
    {i \in MessagesOf(t) : chat_messages[i].sender_type = senderType}
LogsOf(t) == {i \in DOMAIN ai_bot_logs : ai_bot_logs[i].ticket_id = t}
EscalationsOf(t) ==
    {i \in DOMAIN ticket_escalations : ticket_escalations[i].ticket_id = t}
ComplaintsOf(t) ==
    {i \in DOMAIN restaurant_complaints : restaurant_complaints[i].ticket_id = t}
ActiveAgents ==
    {u \in UserIds : users[u].user_type = "support_agent" /\ users[u].is_active}
Created == last.op = "createTicket" /\ last.code = 201

\* C1 (as stated): when createTicket has answered 201, the new ticket has one
\* ticket row, one customer message, one ai_bot message and one classifier
\* log entry, also when the escalation ran.
C1_ExactlyOneAiBotMessage ==
    Created =>
        /\ Cardinality(TicketRows(last.body.ticket_id)) = 1
        /\ Cardinality(MessagesFrom(last.body.ticket_id, "customer")) = 1
        /\ Cardinality(MessagesFrom(last.body.ticket_id, "ai_bot")) = 1
        /\ Cardinality(LogsOf(last.body.ticket_id)) = 1

\* C1 (amended): when createTicket has answered 201, the new ticket has one
\* ticket row, one customer message, one classifier log entry, and one ai_bot
\* message if the ticket got no agent, two (the AI reply, which alone carries
\* a confidence score, and the hand-off notice) if it got one.
C1_RowsOfNewTicket ==
    Created =>
        LET t == last.body.ticket_id IN
        /\ Cardinality(TicketRows(t)) = 1
        /\ Cardinality(MessagesFrom(t, "customer")) = 1
        /\ Cardinality(LogsOf(t)) = 1
        /\ Cardinality({i \in MessagesFrom(t, "ai_bot") :
                           chat_messages[i].ai_confidence_score # NoValue}) = 1
        /\ Cardinality(MessagesFrom(t, "ai_bot")) =
               IF tickets[t].assigned_to = NoValue THEN 1 ELSE 2

C1_Witness ==
    /\ Created
    /\ tickets[last.body.ticket_id].assigned_to # NoValue
    /\ last.rq.priority = "urgent"
    /\ ~last.aiResponse.needsHuman

\* C2: when createTicket has answered 201: if the verdict asked for a human
\* or the priority given was urgent, and an active support agent exists, the
\* ticket has an agent; otherwise it has none and its status is open.
C2_AssignedIffTriggered ==
    Created =>
        LET t == last.body.ticket_id IN
        IF (last.aiResponse.needsHuman \/ last.rq.priority = "urgent")
           /\ ActiveAgents # {}
        THEN tickets[t].assigned_to # NoValue
        ELSE tickets[t].assigned_to = NoValue /\ tickets[t].status = "open"

C2_Witness ==
    /\ Created
    /\ last.rq.priority = "urgent"
    /\ ~last.aiResponse.needsHuman
    /\ ActiveAgents # {}
    /\ tickets[last.body.ticket_id].assigned_to \in ActiveAgents

\* the open load of user u in ticket table tk: u's tickets in assigned/in_progress
OpenLoad(tk, u) ==
    Cardinality({i \in DOMAIN tk :
        tk[i].assigned_to = u /\ tk[i].status \in {"assigned", "in_progress"}})

\* ticket i gets its agent in this step
GetsAgent(i) ==
    /\ tickets'[i].assigned_to # NoValue
    /\ i \in DOMAIN tickets => tickets[i].assigned_to # tickets'[i].assigned_to

\* C3: whenever a step assigns a ticket, the agent is an active support_agent
\* whose open load before the hand-off is at most that of every other active
\* support_agent.
C3_LeastLoadedAgent ==
    [][\A i \in DOMAIN tickets' :
          GetsAgent(i) =>
             /\ tickets'[i].assigned_to \in ActiveAgents
             /\ \A b \in ActiveAgents :
                   OpenLoad(tickets, tickets'[i].assigned_to) <= OpenLoad(tickets, b)]_vars

\* two tickets are with two different agents: the second hand-off had an
\* agent of load 1 and an agent of load 0 to choose from
C3_Witness ==
    /\ Len(tickets) = 2
    /\ tickets[1].assigned_to \in ActiveAgents
    /\ tickets[2].assigned_to \in ActiveAgents \ {tickets[1].assigned_to}
    /\ tickets[1].status = "assigned"

Listed == last.op = "getTicketMessages" /\ last.code = 200

\* C4: a message listing answered to a student holds no internal note; a
\* listing answered to a support_agent, senior_support or admin holds every
\* message of the ticket, internal notes included, in creation order.
C4_InternalNotesHidden ==
    Listed =>
        IF users[last.user_id].user_type = "student"
        THEN \A k \in DOMAIN last.body.messages :
                ~last.body.messages[k].is_internal_note
        ELSE last.body.messages =
                SelectSeq(chat_messages, LAMBDA m : m.ticket_id = last.ticket_id)

C4_Witness ==
    /\ Listed
    /\ users[last.user_id].user_type = "student"
    /\ \E i \in MessagesOf(last.ticket_id) : chat_messages[i].is_internal_note
    /\ Len(last.body.messages) >= 2

\* C5: a sendMessage answered 201 by a support_agent or senior_support turns
\* status open into in_progress and leaves every other status; one by a
\* student that escalates nothing leaves the status; updated_at is refreshed.
C5_StatusOnReply ==
    [][(last'.op = "sendMessage" /\ last'.code = 201) =>
          LET t == last'.ticket_id
              role == users[last'.user_id].user_type
          IN  /\ role \in {"support_agent", "senior_support"} =>
                    tickets'[t].status =
                       IF tickets[t].status = "open" THEN "in_progress"
                       ELSE tickets[t].status
              /\ (role = "student" /\ ticket_escalations' = ticket_escalations) =>
                    tickets'[t].status = tickets[t].status
              /\ tickets'[t].updated_at >= clock
              /\ tickets'[t].updated_at > tickets[t].updated_at]_vars

C5_Witness ==
    /\ last.op = "sendMessage" /\ last.code = 201
    /\ users[last.user_id].user_type = "senior_support"
    /\ tickets[last.ticket_id].status = "in_progress"
    /\ Cardinality(MessagesFrom(last.ticket_id, "senior_support")) = 1

C7_ResolvedStaysResolved ==
    [][last'.op \in {"createTicket", "sendMessage"} =>
          \A i \in DOMAIN tickets :
             tickets[i].status \in {"resolved", "closed"} =>
                tickets'[i].status = tickets[i].status]_vars

\* C8: when createTicket has answered 201, a ticket given neither restaurant
\* nor order has no complaint row and a ticket given only an order that has
\* a restaurant has one; and no ticket ever has more than one complaint row.
C8_ComplaintRows ==
    /\ Created =>
          LET t == last.body.ticket_id IN
          /\ (last.rq.restaurant_id = NoValue /\ last.rq.order_id = NoValue) =>
                ComplaintsOf(t) = {}
          /\ (last.rq.restaurant_id = NoValue /\ last.rq.order_id \in OrderIds) =>
                Cardinality(ComplaintsOf(t)) = 1
    /\ \A i \in DOMAIN tickets : Cardinality(ComplaintsOf(i)) <= 1

C8_Witness ==
    /\ Created
    /\ last.rq.restaurant_id = NoValue /\ last.rq.order_id = "ord1"
    /\ \E i \in ComplaintsOf(last.body.ticket_id) :
          restaurant_complaints[i].restaurant_id = "rst2"

\* C9: when a first ticket of priority urgent is created with exactly one
\* active agent, the response has status "open" and escalated = true whatever
\* the verdict, and the listing for that agent is the customer message, the
\* AI message and the hand-off notice, in this order.
C9_UrgentEndToEnd ==
    (Created /\ last.rq.priority = "urgent" /\ Len(tickets) = 1
       /\ Cardinality(ActiveAgents) = 1) =>
        /\ last.body.status = "open"
        /\ last.body.escalated = TRUE
        /\ \A a \in ActiveAgents :
              LET r == getTicketMessages(Store, users, last.body.ticket_id, a) IN
              /\ r[1] = 200
              /\ Len(r[2]) = 3
              /\ r[2][1].sender_type = "customer"
              /\ r[2][2].sender_type = "ai_bot"
              /\ r[2][2].ai_confidence_score # NoValue
              /\ r[2][3].message_text = HandoffNotice

\* C10: createTicket without ticket_type, subject or description, and
\* sendMessage with an absent, empty or blank text, answer 400 and leave
\* every table and the classifier untouched.
C10_ValidationNoEffect ==
    [][(\/ /\ last'.op = "createTicket"
             /\ \E f \in {"ticket_type", "subject", "description"} :
                   last'.rq[f] \in {NoValue, ""}
          \/ /\ last'.op = "sendMessage"
             /\ last'.rq.message_text \in {NoValue, "", "  "})
        => /\ last'.code = 400
           /\ UNCHANGED <<tickets, chat_messages, ai_bot_logs, ticket_escalations,
                           restaurant_complaints, classifier_calls>>]_vars

C10_Witness ==
    /\ last.op = "sendMessage"
    /\ last.rq.message_text = "  "
    /\ last.code = 400
    /\ Len(chat_messages) > 0

\* C11: a message listing asked by a student for a ticket of another
\* customer is answered 403 and carries no message; asked for the student's
\* own ticket it is answered with the listing.
C11_ForeignTicketDenied ==
    (last.op = "getTicketMessages" /\ users[last.user_id].user_type = "student") =>
        IF tickets[last.ticket_id].user_id = last.user_id
        THEN /\ last.code = 200
             /\ \A i \in MessagesOf(last.ticket_id) :
                   ~chat_messages[i].is_internal_note =>
                      \E k \in DOMAIN last.body.messages :
                         last.body.messages[k] = chat_messages[i]
        ELSE last.code = 403 /\ last.body.messages = <<>>

C11_Witness ==
    /\ last.op = "getTicketMessages"
    /\ last.user_id = "stu2"
    /\ tickets[last.ticket_id].user_id = "stu1"
    /\ MessagesOf(last.ticket_id) # {}
    /\ last.code = 403

EscalationFailPoints ==
    {"select_agents", "update_assign", "insert_notice", "insert_escalation"}

\* C12: when a statement of the escalation throws during createTicket,
\* createTicket still answers 201 and the ticket has no agent and status open.
C12_FailedEscalationLeavesOpen ==
    (/\ last.op = "createTicket"
     /\ last.fail \in EscalationFailPoints
     /\ (last.aiResponse.needsHuman \/ last.rq.priority = "urgent")) =>
        /\ last.code = 201
        /\ tickets[last.body.ticket_id].assigned_to = NoValue
        /\ tickets[last.body.ticket_id].status = "open"

\* C13: when the order lookup or the complaint insert throws, createTicket
\* still answers 201; a failed lookup leaves no complaint row (it is not
\* made when a restaurant was given, whose row is then written), a failed
\* insert leaves none; ticket, messages, classifier log, escalation and
\* response are those of the same request without the failure.
C13_ComplaintBestEffort ==
    [][(last'.op = "createTicket" /\ last'.fail \in {"select_order", "insert_complaint"}) =>
          /\ last'.code = 201
          /\ (last'.fail = "insert_complaint" \/ last'.rq.restaurant_id = NoValue) =>
                restaurant_complaints' = restaurant_complaints
          /\ (last'.fail = "select_order" /\ last'.rq.restaurant_id # NoValue) =>
                /\ Len(restaurant_complaints') = Len(restaurant_complaints) + 1
                /\ restaurant_complaints'[Len(restaurant_complaints')].restaurant_id
                      = last'.rq.restaurant_id
          /\ \E out \in createTicket(Store, users, last'.user_id, last'.rq,
                                      last'.aiResponse, "none") :
                /\ out.code = 201
                /\ tickets' = out.store.tickets
                /\ chat_messages' = out.store.chat_messages
                /\ ai_bot_logs' = out.store.ai_bot_logs
                /\ ticket_escalations' = out.store.ticket_escalations
                /\ last'.body.escalated = out.escalated]_vars

C13_Witness ==
    /\ last.op = "createTicket"
    /\ last.fail = "select_order"
    /\ last.rq.order_id = "ord1" /\ last.rq.restaurant_id = NoValue
    /\ last.code = 201
    /\ restaurant_complaints = <<>>
    /\ tickets[last.body.ticket_id].assigned_to # NoValue
    /\ Len(ticket_escalations) = 1

\* C14: when a statement after the insert of the sender's message throws
\* (classifier, AI message, classifier log, escalation), sendMessage still
\* answers 201 with the id of the message, which stays in chat_messages.
C14_LaterFailureNotFatal ==
    (/\ last.op = "sendMessage"
     /\ last.fail \in {"classifier", "insert_ai_message", "insert_ai_log"}
                      \cup EscalationFailPoints) =>
        /\ last.code = 201
        /\ last.body.message_id \in DOMAIN chat_messages
        /\ chat_messages[last.body.message_id].sender_id = last.user_id

\* the identity (users.user_id) of user u as a number
IdOf(u) == CHOOSE k \in DOMAIN UserIdOrder : UserIdOrder[k] = u

\* C15: whenever a step assigns a ticket and several active support agents
\* share the least open load, the agent of the lowest identity gets it.
C15_LowestIdentityOnTie ==
    [][\A i \in DOMAIN tickets' :
          GetsAgent(i) =>
             \A b \in ActiveAgents :
                OpenLoad(tickets, b) = OpenLoad(tickets, tickets'[i].assigned_to)
                   => IdOf(tickets'[i].assigned_to) <= IdOf(b)]_vars

\* the step is a request that has called escalateToHuman
Escalating ==
    \/ /\ last'.op = "createTicket" /\ last'.code = 201
       /\ (last'.aiResponse.needsHuman \/ last'.rq.priority = "urgent")
    \/ /\ last'.op = "sendMessage"
       /\ classifier_calls' > classifier_calls
       /\ last'.aiResponse.needsHuman

\* C20: whenever a step assigns a ticket, the agent is a support_agent whose
\* is_active is true; and a request that escalates while no such user exists
\* leaves agent and status of the ticket as they were (none and open for a
\* new ticket), appends no hand-off notice, writes no escalation record and
\* is answered 201.
C20_OnlyActiveAgentsElseNoOp ==
    [][/\ \A i \in DOMAIN tickets' :
             GetsAgent(i) =>
                /\ users[tickets'[i].assigned_to].user_type = "support_agent"
                /\ users[tickets'[i].assigned_to].is_active
       /\ (Escalating /\ ActiveAgents = {}) =>
             /\ last'.code = 201
             /\ ticket_escalations' = ticket_escalations
             /\ \A k \in DOMAIN chat_messages' \ DOMAIN chat_messages :
                   chat_messages'[k].message_text # HandoffNotice
             /\ IF last'.op = "createTicket"
                THEN /\ tickets'[last'.ticket_id].assigned_to = NoValue
                     /\ tickets'[last'.ticket_id].status = "open"
                ELSE /\ tickets'[last'.ticket_id].assigned_to
                           = tickets[last'.ticket_id].assigned_to
                     /\ tickets'[last'.ticket_id].status
                           = tickets[last'.ticket_id].status]_vars

\* an urgent ticket was created while no support agent is active
C20_Witness ==
    /\ Created
    /\ last.rq.priority = "urgent"
    /\ ActiveAgents = {}
    /\ \E u \in UserIds : users[u].user_type = "support_agent"
    /\ tickets[last.body.ticket_id].assigned_to = NoValue
    /\ ticket_escalations = <<>>
    /\ Cardinality(MessagesFrom(last.body.ticket_id, "ai_bot")) = 1

\* the priorities a ticket may have
TicketPriorities == {"low", "medium", "high", "urgent"}

\* C16: createTicket with valid required fields creates a ticket whose
\* priority is the one given when that is low, medium, high or urgent, and
\* medium when none or any other value was given.
C16_PriorityDefaultsToMedium ==
    last.op = "createTicket" =>
        /\ last.code = 201
        /\ tickets[last.body.ticket_id].priority =
              IF last.rq.priority \in TicketPriorities
              THEN last.rq.priority ELSE "medium"

ListedIds == {last.body.tickets[k].ticket_id : k \in DOMAIN last.body.tickets}

\* C18: the listing for agents holds the tickets that are not resolved or
\* closed, that have the status and the priority asked for when one was
\* asked for, and, for a support_agent, that have no agent or the caller as
\* agent; it holds no other ticket.
C18_AgentListing ==
    last.op = "getAllTickets" =>
        /\ last.code = 200
        /\ ListedIds =
              {i \in DOMAIN tickets :
                 /\ tickets[i].status \notin {"resolved", "closed"}
                 /\ last.rq.status # NoValue => tickets[i].status = last.rq.status
                 /\ last.rq.priority # NoValue => tickets[i].priority = last.rq.priority
                 /\ users[last.user_id].user_type = "support_agent" =>
                       tickets[i].assigned_to \in {NoValue, last.user_id}}

\* a support_agent was listed the ticket without agent and not the ticket of
\* another agent
C18_Witness ==
    /\ last.op = "getAllTickets"
    /\ users[last.user_id].user_type = "support_agent"
    /\ last.rq.status = NoValue /\ last.rq.priority = NoValue
    /\ \E i, j \in DOMAIN tickets :
          /\ tickets[i].assigned_to \notin {NoValue, last.user_id}
          /\ tickets[i].status = "assigned"
          /\ i \notin ListedIds
          /\ tickets[j].assigned_to = NoValue
          /\ j \in ListedIds

\* C19: no answer to a student, of the message listing or of the debug
\* route, holds a message whose is_internal_note is true.
C19_NoInternalNoteToStudent ==
    (/\ last.op \in {"getTicketMessages", "debugTicket"}
     /\ users[last.user_id].user_type = "student") =>
        \A k \in DOMAIN last.body.messages :
           ~last.body.messages[k].is_internal_note

\* the messages of sender type st appended by the step
NewMessagesFrom(st) ==
    {k \in DOMAIN chat_messages' \ DOMAIN chat_messages :
        chat_messages'[k].sender_type = st}

\* the step is a sendMessage answered 201 that has left the classifier, the
\* log, the escalations and the agent of the ticket alone and has appended
\* the sender's message only
OnlyOwnMessage ==
    /\ classifier_calls' = classifier_calls
    /\ ai_bot_logs' = ai_bot_logs
    /\ ticket_escalations' = ticket_escalations
    /\ Len(chat_messages') = Len(chat_messages) + 1
    /\ chat_messages'[Len(chat_messages')].sender_id = last'.user_id
    /\ tickets'[last'.ticket_id].assigned_to = tickets[last'.ticket_id].assigned_to

\* C22 (as stated): a sendMessage answered 201 calls the classifier once and
\* appends exactly one ai_bot message and one classifier log entry when the
\* sender is a student and the ticket has no agent; otherwise it appends the
\* sender's message only and escalates nothing.
C22_ExactlyOneAiBotMessageOnReply ==
    [][(last'.op = "sendMessage" /\ last'.code = 201) =>
          IF /\ users[last'.user_id].user_type = "student"
             /\ tickets[last'.ticket_id].assigned_to = NoValue
          THEN /\ classifier_calls' = classifier_calls + 1
               /\ Len(ai_bot_logs') = Len(ai_bot_logs) + 1
               /\ Cardinality(NewMessagesFrom("ai_bot")) = 1
          ELSE OnlyOwnMessage]_vars

\* C22 (amended): a sendMessage answered 201 calls the classifier once and
\* appends one classifier log entry and one ai_bot reply, and the hand-off
\* notice as a second ai_bot message exactly when the ticket is handed off,
\* when the sender is a student and the ticket has no agent; otherwise it
\* appends the sender's message only and escalates nothing.
C22_ClassifierIffStudentAndNoAgent ==
    [][(last'.op = "sendMessage" /\ last'.code = 201) =>
          IF /\ users[last'.user_id].user_type = "student"
             /\ tickets[last'.ticket_id].assigned_to = NoValue
          THEN /\ classifier_calls' = classifier_calls + 1
               /\ Len(ai_bot_logs') = Len(ai_bot_logs) + 1
               /\ Cardinality({k \in NewMessagesFrom("ai_bot") :
                      chat_messages'[k].message_text # HandoffNotice}) = 1
               /\ Cardinality({k \in NewMessagesFrom("ai_bot") :
                      chat_messages'[k].message_text = HandoffNotice})
                     = Len(ticket_escalations') - Len(ticket_escalations)
               /\ Len(ticket_escalations') - Len(ticket_escalations) =
                     IF tickets'[last'.ticket_id].assigned_to # NoValue THEN 1 ELSE 0
          ELSE OnlyOwnMessage]_vars

\* a student's reply on a ticket without agent was answered by the AI and
\* handed off
C22_Witness ==
    /\ last.op = "sendMessage" /\ last.code = 201
    /\ users[last.user_id].user_type = "student"
    /\ Len(chat_messages) = last.body.message_id + 2
    /\ chat_messages[last.body.message_id + 1].sender_type = "ai_bot"
    /\ chat_messages[last.body.message_id + 2].message_text = HandoffNotice
    /\ Cardinality(EscalationsOf(last.ticket_id)) = 1
    /\ Cardinality(LogsOf(last.ticket_id)) = 2

\* C25: a sendMessage by a student on a ticket of another customer is
\* answered 403 and changes no table and calls no classifier.
C25_ForeignPostRejected ==
    [][(/\ last'.op = "sendMessage"
        /\ users[last'.user_id].user_type = "student"
        /\ tickets[last'.ticket_id].user_id # last'.user_id) =>
          /\ last'.code = 403
          /\ UNCHANGED <<tickets, chat_messages, ai_bot_logs, ticket_escalations,
                         classifier_calls>>]_vars

\* no handler is in progress
Quiescent == \A p \in Connections : workflows[p] = Idle

\* the hand-off notices of ticket t
NoticesOf(t) ==
    {i \in MessagesOf(t) : chat_messages[i].message_text = HandoffNotice}

\* C21: while no handler is in progress, a ticket has an agent exactly when
\* it has an escalation record to that agent (level 'agent', no source),
\* and it has as many hand-off notices as escalation records.
C21_HandOffAllOrNothing ==
    Quiescent =>
        \A t \in DOMAIN tickets :
           /\ tickets[t].assigned_to # NoValue <=>
                 \E e \in EscalationsOf(t) :
                    /\ ticket_escalations[e].escalated_to = tickets[t].assigned_to
                    /\ ticket_escalations[e].escalation_level = "agent"
                    /\ ticket_escalations[e].escalated_from = NoValue
           /\ tickets[t].assigned_to = NoValue => EscalationsOf(t) = {}
           /\ Cardinality(NoticesOf(t)) = Cardinality(EscalationsOf(t))

\* of two tickets, one was handed off and one was not, and a reply on it
\* was answered by the AI
C21_Witness ==
    /\ Quiescent
    /\ Len(tickets) = 2
    /\ \E t, u \in DOMAIN tickets :
          /\ tickets[t].assigned_to \in ActiveAgents
          /\ Cardinality(EscalationsOf(t)) = 1
          /\ Cardinality(NoticesOf(t)) = 1
          /\ tickets[u].assigned_to = NoValue
          /\ Cardinality(LogsOf(u)) = 2

\* the escalations of ticket t that were asked for: the classifier log
\* entries with escalated_to_human
AskedEscalations(t) == {l \in LogsOf(t) : ai_bot_logs[l].escalated_to_human}

\* C23: when two tickets have had one escalation each, in whatever order
\* the statements of the two ran, and an active support agent exists, then
\* each ticket has status assigned, an active support agent, one
\* escalation record, which names that agent, and one hand-off notice.
C23_ConcurrentEscalations ==
    (/\ Quiescent
     /\ ActiveAgents # {}
     /\ Len(tickets) = 2
     /\ \A t \in DOMAIN tickets : Cardinality(AskedEscalations(t)) = 1) =>
        \A t \in DOMAIN tickets :
           /\ tickets[t].status = "assigned"
           /\ tickets[t].assigned_to \in ActiveAgents
           /\ Cardinality(EscalationsOf(t)) = 1
           /\ \A e \in EscalationsOf(t) :
                 ticket_escalations[e].escalated_to = tickets[t].assigned_to
           /\ Cardinality(NoticesOf(t)) = 1

\* two agents are active and both tickets went to the same one: each
\* escalation chose its agent before the other assigned
C23_Witness ==
    /\ Quiescent
    /\ Cardinality(ActiveAgents) = 2
    /\ Len(tickets) = 2
    /\ \A t \in DOMAIN tickets : Cardinality(AskedEscalations(t)) = 1
    /\ tickets[1].assigned_to = tickets[2].assigned_to
    /\ tickets[1].assigned_to \in ActiveAgents
    /\ Len(ticket_escalations) = 2

\* every ticket has at most one escalation record and one hand-off notice
HandedOffAtMostOnce ==
    \A t \in DOMAIN tickets :
       /\ Cardinality(EscalationsOf(t)) <= 1
       /\ Cardinality(NoticesOf(t)) <= 1

\* no step takes the agent of a ticket away or replaces it by another
AgentKept ==
    \A t \in DOMAIN tickets :
       tickets[t].assigned_to # NoValue =>
          tickets'[t].assigned_to = tickets[t].assigned_to

\* C24: in whatever order the statements of createTicket and sendMessage
\* handlers run, every ticket has at most one escalation record and at
\* most one hand-off notice, and a ticket that has an agent keeps it.
C24_HandedOffAtMostOnce == []HandedOffAtMostOnce /\ [][AgentKept]_vars

====
